---- MODULE Spec2Model ----
(***************************************************************************)
(* toqito: diamond_norm (channel_metrics/diamond_norm.py) and              *)
(* state_exclusion (state_opt/state_exclusion.py) as single-shot           *)
(* validate / build / solve / extract pipelines.                           *)
(*                                                                         *)
(* Numbers.  Matrices are represented by their diagonals; a matrix entry   *)
(* is a pair <<re, im>> of integers.  State vectors are unit vectors of    *)
(* the standard basis, so that v v^H is diagonal.  Probabilities are       *)
(* integer numerators over the common denominator Den.  For these inputs   *)
(* every program built below has an optimal solution that is diagonal with *)
(* entries on the candidate grids, so the solver's optimum is computed by  *)
(* exhaustive search over the declared feasible set.  The value a solver   *)
(* reports is Scale * optimum + e with |e| <= Tol (its tolerance).         *)
(***************************************************************************)
EXTENDS Integers, Sequences, FiniteSets

\* ------------------------------------------------------------------ bounds
MaxSide == 4
MaxN == 3
MaxDim == 2
Scale == 4
Tol == 1

\* ------------------------------------------------------------- arithmetic
Abs(x) == IF x < 0 THEN -x ELSE x

Max2(a, b) == IF a < b THEN b ELSE a

RECURSIVE Fact(_)
Fact(n) == IF n <= 1 THEN 1 ELSE n * Fact(n - 1)

\* Common denominator of all probabilities: 1/n is exact for every n in range.
Den == Fact(Max2(MaxN, MaxDim))

RECURSIVE SumSeq(_)
SumSeq(s) == IF Len(s) = 0 THEN 0 ELSE Head(s) + SumSeq(Tail(s))

SetMax(S) == CHOOSE m \in S : \A y \in S : y <= m

SetMin(S) == CHOOSE m \in S : \A y \in S : m <= y

\* int(np.sqrt(n))
IntSqrt(n) == CHOOSE r \in 0..n : r * r <= n /\ (r + 1) * (r + 1) > n

\* ------------------------------------------------------------------ errors
NoError == [type |-> "none", msg |-> ""]

\* diamond_norm.py:52
ChoiDimensionMismatch == [type |-> "ValueError", msg |-> "The Choi matrices provided should be of equal dimension."]

\* diamond_norm.py:56
ChoiNotSquare == [type |-> "ValueError", msg |-> "The Choi matrix provided must be square."]

\* state_exclusion.py:104
VectorDimensionMismatch == [type |-> "ValueError", msg |-> "Vectors for state exclusion must all have the same dimension."]

\* vectors[0] on an empty list, probs[i] past the end of probs
IndexError == [type |-> "IndexError", msg |-> "list index out of range"]

\* cvxpy refuses w_var - kron(eye(dim), rho) when the two sides cannot be broadcast
ShapeError == [type |-> "ValueError", msg |-> "Cannot broadcast dimensions"]

\* what problem.solve() raises when the backend fails
SolverFailure == [type |-> "SolverError", msg |-> "solver failed"]

\* ------------------------------------------------------------------ inputs
\* Matrix entries: 0, 1 and i.
Entries == {<<0, 0>>, <<1, 0>>, <<0, 1>>}

Shapes == (1..MaxSide) \X (1..MaxSide)

DiagsOf(shape) == IF shape[1] = shape[2] THEN [1..shape[1] -> Entries] ELSE {<<>>}

Matrices == UNION {{[shape |-> sh, diag |-> dg] : dg \in DiagsOf(sh)} : sh \in Shapes}

NoMatrix == [shape |-> <<0, 0>>, diag |-> <<>>]

\* State vectors: the unit column vectors e_k of dimension d.
VectorsOf(d) == {[j \in 1..d |-> IF j = k THEN 1 ELSE 0] : k \in 1..d}

AllVectors == UNION {VectorsOf(d) : d \in 1..MaxDim}

Ensembles == UNION {[1..n -> AllVectors] : n \in 0..MaxN}

ProbValues == {0, Den \div 2, Den}

\* Probability vectors with one entry per ensemble member, summing to 1.
ProbVectors(n) == {p \in [1..n -> ProbValues] : SumSeq(p) = Den}

NoProbs == [given |-> FALSE, val |-> <<>>]

ProbInputs(n) == {NoProbs} \cup {[given |-> TRUE, val |-> p] : p \in ProbVectors(n)}

Modes == {"primal", "dual", "Primal"}

\* ------------------------------------------------------------------- state
VARIABLES pc, fn, choi_1, choi_2, vectors, probs, primal_dual, weights, problem, nsolve, solver_status, solver_value, error, value, operators

vars == <<pc, fn, choi_1, choi_2, vectors, probs, primal_dual, weights, problem, nsolve, solver_status, solver_value, error, value, operators>>

NoProblem == [kind |-> "none"]

NoValue == [given |-> FALSE, val |-> 0]

Init ==
    /\ pc = "idle"
    /\ fn = "none"
    /\ choi_1 = NoMatrix
    /\ choi_2 = NoMatrix
    /\ vectors = <<>>
    /\ probs = NoProbs
    /\ primal_dual = "none"
    /\ weights = <<>>
    /\ problem = NoProblem
    /\ nsolve = 0
    /\ solver_status = "none"
    /\ solver_value = NoValue
    /\ error = NoError
    /\ value = NoValue
    /\ operators = <<>>

\* ------------------------------------------------------------ diamond_norm
\* delta_choi = choi_1 - choi_2
Subtract(a, b) == [k \in 1..Len(a) |-> <<a[k][1] - b[k][1], a[k][2] - b[k][2]>>]

\* m.conj().T, on the diagonal
ConjT(m) == [k \in 1..Len(m) |-> <<m[k][1], -m[k][2]>>]

\* (delta_choi.conj().T + delta_choi) / 2
Hermitize(m) == [k \in 1..Len(m) |-> <<(ConjT(m)[k][1] + m[k][1]) \div 2, (ConjT(m)[k][2] + m[k][2]) \div 2>>]

\* diagonal of cvxpy.kron(np.eye(dim), rho): entry (i*dim + j) is eye[i,i] * rho[j,j]
Kron(dim, rho) == [k \in 1..(dim * dim) |-> rho[((k - 1) % dim) + 1]]

DiamondVariables(dim, dim_squared) == <<[name |-> "rho", size |-> dim], [name |-> "w_var", size |-> dim_squared]>>

DiamondConstraints == <<"rho == rho.H", "rho >> 0", "trace(rho) == 1", "w_var == w_var.H", "w_var >> 0", "w_var - kron(eye(dim), rho) << 0">>

\* The problem diamond_norm declares for validated inputs.
DiamondProblem(c1, c2) ==
    LET dim_squared == c1.shape[1]
        dim == IntSqrt(dim_squared)
    IN  [kind |-> "diamond",
         dim |-> dim,
         dim_squared |-> dim_squared,
         kron_side |-> dim * dim,
         variables |-> DiamondVariables(dim, dim_squared),
         constraints |-> DiamondConstraints,
         sense |-> "max",
         j_var |-> Hermitize(Subtract(c1.diag, c2.diag))]

\* Candidate values of one diagonal entry of rho and of w_var.
Grid == {-1, 0, 1}

\* One declared constraint, on diagonal candidates rho and w.
DiamondHolds(c, p, rho, w) ==
    CASE c = "rho == rho.H" -> TRUE
      [] c = "rho >> 0" -> \A j \in 1..p.dim : rho[j] >= 0
      [] c = "trace(rho) == 1" -> SumSeq(rho) = 1
      [] c = "w_var == w_var.H" -> TRUE
      [] c = "w_var >> 0" -> \A k \in 1..p.dim_squared : w[k] >= 0
      [] c = "w_var - kron(eye(dim), rho) << 0" -> \A k \in 1..p.dim_squared : w[k] - Kron(p.dim, rho)[k] <= 0

\* The constraints that mention rho alone.
RhoOnly(c) == c \in {"rho == rho.H", "rho >> 0", "trace(rho) == 1"}

\* The feasible set: every (rho, w) on the grid that meets every declared constraint.
DiamondFeasible(p) ==
    LET rhos == {rho \in [1..p.dim -> Grid] :
                    \A i \in 1..Len(p.constraints) :
                        RhoOnly(p.constraints[i]) => DiamondHolds(p.constraints[i], p, rho, <<>>)}
        ws(rho) == {w \in [1..p.dim_squared -> Grid] :
                    \A i \in 1..Len(p.constraints) :
                        ~RhoOnly(p.constraints[i]) => DiamondHolds(p.constraints[i], p, rho, w)}
    IN  UNION {{<<rho, w>> : w \in ws(rho)} : rho \in rhos}

\* real(trace(j_var.H @ w_var)) for diagonal j_var and w_var
DiamondObjective(p, w) == SumSeq([k \in 1..p.dim_squared |-> ConjT(p.j_var)[k][1] * w[k]])

\* The optimal value of the declared problem.
DiamondOptimum(p) == SetMax({DiamondObjective(p, rw[2]) : rw \in DiamondFeasible(p)})

\* Whether W and kron(eye(dim), rho) have the same side.
Consistent(p) == p.kind = "diamond" => p.kron_side = p.dim_squared

Raise(e, prob) ==
    /\ pc' = "raised"
    /\ error' = e
    /\ problem' = prob
    /\ UNCHANGED <<nsolve, solver_status, solver_value, value, operators>>

\* --------------------------------------------------------- state_exclusion
\* vector.shape of a column vector
Shape(v) == <<Len(v), 1>>

\* any(...) in place of all(...)
AnySameShape(vs) == \E i \in 1..Len(vs) : Shape(vs[i]) = Shape(vs[1])

\* all(vector.shape == vectors[0].shape for vector in vectors)
AllSameShape(vs) == \A i \in 1..Len(vs) : Shape(vs[i]) = Shape(vs[1])

\* probs = [1 / n] * n if probs is None else probs, with n = vectors[0].shape[0]
DefaultProbs(vs, ps) ==
    LET n == Shape(vs[1])[1]
    IN  IF ps.given THEN ps.val ELSE [i \in 1..n |-> Den \div n]

\* diagonal of vector @ vector.conj().T
Outer(v) == [j \in 1..Len(v) |-> v[j] * v[j]]

\* diagonal of probs[i] * vectors[i] @ vectors[i].conj().T
Weighted(vs, ps, i) == [j \in 1..Len(vs[i]) |-> ps[i] * Outer(vs[i])[j]]

\* measurements = [picos.HermitianVariable(f"M[{i}]", (dim, dim)) for i in range(n)]
Measurements(n, dim) == [i \in 1..n |-> [kind |-> "variable", name |-> "M", index |-> i - 1, size |-> dim]]

\* meas >> 0 for every measurement, then picos.sum(measurements) == picos.I(dim)
PrimalConstraints(n) == [i \in 1..n |-> [kind |-> ">> 0", index |-> i - 1]] \o <<[kind |-> "sum == I", index |-> n]>>

\* The problem _min_error_primal declares, once its objective is set.
PrimalProblem(vs, ps) ==
    LET n == Len(vs)
        dim == Shape(vs[1])[1]
    IN  [kind |-> "primal",
         n |-> n,
         dim |-> dim,
         variables |-> Measurements(n, dim),
         constraints |-> PrimalConstraints(n),
         sense |-> "min",
         coeff |-> [i \in 1..n |-> Weighted(vs, ps, i)]]

\* The constraints y_var << vector @ vector.conj().T, the weights forgotten.
DualConstraintsUnweighted(vs, ps) == [i \in 1..Len(vs) |-> [kind |-> "Y << rhs", index |-> i - 1, rhs |-> Outer(vs[i])]]

\* The constraints y_var << probs[i] * vector @ vector.conj().T, in ensemble order.
DualConstraints(vs, ps) == [i \in 1..Len(vs) |-> [kind |-> "Y << rhs", index |-> i - 1, rhs |-> Weighted(vs, ps, i)]]

\* The problem _min_error_dual declares.
DualProblem(vs, ps) ==
    LET n == Len(vs)
        dim == Shape(vs[1])[1]
    IN  [kind |-> "dual",
         n |-> n,
         dim |-> dim,
         variables |-> <<[kind |-> "variable", name |-> "Y", index |-> 0, size |-> dim]>>,
         constraints |-> DualConstraints(vs, ps),
         sense |-> "max"]

\* Candidate values of one diagonal entry of a measurement operator.
MGrid == {-1, 0, 1}

\* One declared constraint of the primal problem at one diagonal coordinate,
\* where col[i] is that coordinate's entry of measurement i (the identity's is 1).
PrimalHolds(c, p, col) ==
    CASE c.kind = ">> 0" -> col[c.index + 1] >= 0
      [] c.kind = "sum == I" -> SumSeq(col) = 1

\* On diagonals every constraint and the objective are sums over the coordinates,
\* so the feasible set is a product of per-coordinate sets of columns.
PrimalFeasible(p) ==
    {col \in [1..p.n -> MGrid] :
        \A c \in 1..Len(p.constraints) : PrimalHolds(p.constraints[c], p, col)}

\* coordinate j's share of the sum of (probs[i] * v_i v_i^H | measurements[i])
PrimalObjective(p, j, col) == SumSeq([i \in 1..p.n |-> p.coeff[i][j] * col[i]])

PrimalOptimum(p) == SumSeq([j \in 1..p.dim |-> SetMin({PrimalObjective(p, j, col) : col \in PrimalFeasible(p)})])

\* Candidate values of one diagonal entry of Y: every bound that occurs, 0 and -1.
YGrid(p) == {-1, 0} \cup {p.constraints[i].rhs[j] : i \in 1..p.n, j \in 1..p.dim}

DualFeasible(p) ==
    {y \in [1..p.dim -> YGrid(p)] :
        \A c \in 1..Len(p.constraints) : \A j \in 1..p.dim : y[j] <= p.constraints[c].rhs[j]}

\* picos.trace(y_var)
DualObjective(p, y) == SumSeq(y)

DualOptimum(p) == SetMax({DualObjective(p, y) : y \in DualFeasible(p)})

\* The optimal value of a declared problem.
Optimum(p) ==
    CASE p.kind = "diamond" -> DiamondOptimum(p)
      [] p.kind = "primal" -> PrimalOptimum(p)
      [] p.kind = "dual" -> DualOptimum(p)

\* Values problem.solve() may report for the problem.  When the Kronecker
\* product is 1 x 1 and W is larger, cvxpy broadcasts the product as a scalar;
\* the resulting constraint is not diagonal and its optimum is left open.
ReportedValues(p) ==
    IF Consistent(p) THEN {Scale * Optimum(p) + e : e \in (-Tol)..Tol}
    ELSE (-Tol)..(Scale * p.dim_squared + Tol)

\* problem.get_constraint(k)
GetConstraint(p, k) == p.constraints[k + 1]

\* The two checks diamond_norm makes before anything else, in the wrong order.
DiamondValidateSquareFirst(c1, c2) ==
    IF c1.shape[1] # c1.shape[2] THEN ChoiNotSquare
    ELSE IF c1.shape # c2.shape THEN ChoiDimensionMismatch
    ELSE NoError

\* The two checks diamond_norm makes before anything else: the error raised, if any.
DiamondValidate(c1, c2) ==
    IF c1.shape # c2.shape THEN ChoiDimensionMismatch
    ELSE IF c1.shape[1] # c1.shape[2] THEN ChoiNotSquare
    ELSE NoError

\* diamond_norm up to and including the call of problem.solve().
diamond_norm(c1, c2) ==
    /\ pc = "idle"
    /\ fn' = "diamond_norm"
    /\ choi_1' = c1
    /\ choi_2' = c2
    /\ UNCHANGED <<vectors, probs, primal_dual, weights>>
    /\ IF DiamondValidate(c1, c2) # NoError THEN Raise(DiamondValidate(c1, c2), NoProblem)
       ELSE LET p == DiamondProblem(c1, c2)
            IN  IF ~Consistent(p) /\ p.kron_side # 1
                THEN Raise(ShapeError, [p EXCEPT !.constraints = SubSeq(DiamondConstraints, 1, 5), !.sense = "none"])
                ELSE /\ pc' = "solving"
                     /\ problem' = p
                     /\ nsolve' = nsolve + 1
                     /\ UNCHANGED <<solver_status, solver_value, error, value, operators>>

\* return problem.value * 2, with small negative values clamped to 0
ClampedTwice(v) == IF v < 0 THEN 0 ELSE v * 2

\* return problem.value * 2
Twice(v) == v * 2

\* problem.solve() returns; diamond_norm returns problem.value * 2.
diamond_norm_return ==
    /\ pc = "solving"
    /\ fn = "diamond_norm"
    /\ \E v \in ReportedValues(problem) :
        /\ pc' = "returned"
        /\ solver_status' = "optimal"
        /\ solver_value' = [given |-> TRUE, val |-> v]
        /\ value' = [given |-> TRUE, val |-> Twice(v)]
    /\ UNCHANGED <<fn, choi_1, choi_2, vectors, probs, primal_dual, weights, problem, nsolve, error, operators>>

\* _min_error_primal up to and including the call of problem.solve()
_min_error_primal(vs, ps) ==
    LET n == Len(vs)
        dim == Shape(vs[1])[1]
    IN  IF Len(ps) < n
        THEN Raise(IndexError, [kind |-> "primal", n |-> n, dim |-> dim, variables |-> Measurements(n, dim),
                                constraints |-> PrimalConstraints(n), sense |-> "none", coeff |-> <<>>])
        ELSE /\ pc' = "solving"
             /\ problem' = PrimalProblem(vs, ps)
             /\ nsolve' = nsolve + 1
             /\ UNCHANGED <<solver_status, solver_value, error, value, operators>>

\* _min_error_dual up to and including the call of problem.solve()
_min_error_dual(vs, ps) ==
    LET n == Len(vs)
        dim == Shape(vs[1])[1]
    IN  IF Len(ps) < n
        THEN Raise(IndexError, [kind |-> "dual", n |-> n, dim |-> dim,
                                variables |-> <<[kind |-> "variable", name |-> "Y", index |-> 0, size |-> dim]>>,
                                constraints |-> <<>>, sense |-> "none"])
        ELSE /\ pc' = "solving"
             /\ problem' = DualProblem(vs, ps)
             /\ nsolve' = nsolve + 1
             /\ UNCHANGED <<solver_status, solver_value, error, value, operators>>

\* state_exclusion up to and including the call of problem.solve().
state_exclusion(vs, ps, mode) ==
    /\ pc = "idle"
    /\ fn' = "state_exclusion"
    /\ vectors' = vs
    /\ probs' = ps
    /\ primal_dual' = mode
    /\ UNCHANGED <<choi_1, choi_2>>
    /\ IF ~AllSameShape(vs) THEN Raise(VectorDimensionMismatch, NoProblem) /\ weights' = <<>>
       ELSE IF Len(vs) = 0 THEN Raise(IndexError, NoProblem) /\ weights' = <<>>
       ELSE /\ weights' = DefaultProbs(vs, ps)
            /\ IF mode = "primal"
               THEN _min_error_primal(vs, DefaultProbs(vs, ps))
               ELSE _min_error_dual(vs, DefaultProbs(vs, ps))

\* Both formulations hand back the problem's variables: in dual mode, Y itself.
ReturnedVariables(p) == p.variables

\* The operators each formulation hands back after the solve.
ReturnedOperators(p) ==
    IF p.kind = "primal" THEN p.variables
    ELSE [k \in 1..p.n |-> [kind |-> "dual", of |-> GetConstraint(p, k - 1)]]

\* problem.solve() returns; the pair (solution.value, measurements) is returned.
state_exclusion_return ==
    /\ pc = "solving"
    /\ fn = "state_exclusion"
    /\ \E v \in ReportedValues(problem) :
        /\ pc' = "returned"
        /\ solver_status' = "optimal"
        /\ solver_value' = [given |-> TRUE, val |-> v]
        /\ value' = [given |-> TRUE, val |-> v]
        /\ operators' = ReturnedOperators(problem)
    /\ UNCHANGED <<fn, choi_1, choi_2, vectors, probs, primal_dual, weights, problem, nsolve, error>>

\* problem.solve() raises and the failure is swallowed: 0 is returned in its place.
solve_fails_swallowed ==
    /\ pc = "solving"
    /\ pc' = "returned"
    /\ solver_status' = "failed"
    /\ value' = [given |-> TRUE, val |-> 0]
    /\ UNCHANGED <<fn, choi_1, choi_2, vectors, probs, primal_dual, weights, problem, nsolve, solver_value, error, operators>>

\* problem.solve() raises: nothing in either function catches it.
solve_fails ==
    /\ pc = "solving"
    /\ pc' = "raised"
    /\ solver_status' = "failed"
    /\ error' = SolverFailure
    /\ UNCHANGED <<fn, choi_1, choi_2, vectors, probs, primal_dual, weights, problem, nsolve, solver_value, value, operators>>

\* A caller invokes diamond_norm with any two matrices.
call_diamond_norm ==
    /\ pc = "idle"
    /\ \E c1 \in Matrices, c2 \in Matrices : diamond_norm(c1, c2)

\* A caller invokes state_exclusion with any ensemble, probabilities and mode.
call_state_exclusion ==
    /\ pc = "idle"
    /\ \E vs \in Ensembles : \E ps \in ProbInputs(Len(vs)), mode \in Modes : state_exclusion(vs, ps, mode)

Next ==
    \/ call_diamond_norm
    \/ diamond_norm_return
    \/ call_state_exclusion
    \/ state_exclusion_return
    \/ solve_fails

Spec == Init /\ [][Next]_vars
\* ---------------------------------------------------------------- claims
ShapesDiffer(vs) == \E i \in 1..Len(vs), j \in 1..Len(vs) : Shape(vs[i]) # Shape(vs[j])

\* The call ended in error e before any variable or constraint was declared
\* and without the solver being invoked.
RaisedEagerly(e) == pc = "raised" /\ error = e /\ problem = NoProblem /\ nsolve = 0 /\ solver_status = "none"

\* C1: diamond_norm ends in the dimension-mismatch error whenever the two
\* shapes differ (also when the matrices are non-square), and in the
\* not-square error whenever the shapes are equal and rows # columns; in both
\* cases nothing has been declared and the solver has not been invoked.
C1_ValidationErrors ==
    fn = "diamond_norm" =>
        /\ choi_1.shape # choi_2.shape => RaisedEagerly(ChoiDimensionMismatch)
        /\ (choi_1.shape = choi_2.shape /\ choi_1.shape[1] # choi_1.shape[2]) => RaisedEagerly(ChoiNotSquare)

C1_Witness ==
    /\ fn = "diamond_norm"
    /\ choi_1.shape # choi_2.shape
    /\ choi_1.shape[1] # choi_1.shape[2]
    /\ RaisedEagerly(ChoiDimensionMismatch)

\* C2: state_exclusion ends in the dimension-mismatch error for every
\* non-empty ensemble in which two vectors differ in shape, whatever the
\* position of the odd vector, the mode and probs; nothing has been built or solved.
C2_EnsembleMismatch ==
    (fn = "state_exclusion" /\ Len(vectors) >= 1 /\ ShapesDiffer(vectors)) => RaisedEagerly(VectorDimensionMismatch)

C2_Witness ==
    /\ fn = "state_exclusion"
    /\ Len(vectors) = MaxN
    /\ \A i \in 1..(MaxN - 1) : Shape(vectors[i]) = Shape(vectors[1])
    /\ Shape(vectors[MaxN]) # Shape(vectors[1])
    /\ primal_dual = "primal"
    /\ probs.given
    /\ RaisedEagerly(VectorDimensionMismatch)

\* C3: when probs is omitted and the ensemble passes validation, the weights
\* handed to the builders have one entry per ensemble member, each 1/n with
\* n = len(vectors), so every member has a weight and the weights sum to 1.
C3_UniformPerMember ==
    (fn = "state_exclusion" /\ ~probs.given /\ Len(vectors) >= 1 /\ AllSameShape(vectors)) =>
        /\ error # IndexError
        /\ Len(weights) = Len(vectors)
        /\ \A i \in 1..Len(weights) : weights[i] * Len(vectors) = Den

\* The optimum of the formulation the call did not build, for the same
\* ensemble and weights.
OtherOptimum ==
    IF problem.kind = "primal" THEN DualOptimum(DualProblem(vectors, weights))
    ELSE PrimalOptimum(PrimalProblem(vectors, weights))

\* C4: the value state_exclusion returns in either mode is, within the
\* solver's tolerance, the optimal value of the other formulation for the
\* same ensemble and probabilities: primal and dual agree.
C4_PrimalDualAgree ==
    (fn = "state_exclusion" /\ pc = "returned") => Abs(value.val - Scale * OtherOptimum) <= Tol

C4_Witness ==
    /\ fn = "state_exclusion"
    /\ pc = "returned"
    /\ probs.given
    /\ problem.kind = "primal"
    /\ Len(vectors) >= 2
    /\ value.val >= Scale

\* C5: diamond_norm(J1, J2) equals diamond_norm(J2, J1) within tolerance for
\* all square, equal-shape inputs: the returned value is within tolerance of
\* twice the optimum of the problem built from the swapped arguments.
C5_Symmetric ==
    (fn = "diamond_norm" /\ pc = "returned" /\ Consistent(problem)) =>
        Abs(value.val - 2 * Scale * DiamondOptimum(DiamondProblem(choi_2, choi_1))) <= 2 * Tol

\* C6: whenever diamond_norm returns, it returns exactly twice the value the
\* solver reported, negative values included.
C6_TwiceSolverValue ==
    (fn = "diamond_norm" /\ pc = "returned") =>
        /\ solver_value.given
        /\ value.given
        /\ value.val = 2 * solver_value.val

C6_Witness ==
    /\ fn = "diamond_norm"
    /\ pc = "returned"
    /\ solver_value.val < 0
    /\ value.val = 2 * solver_value.val

C8_SolveOnce ==
    /\ nsolve <= 1
    /\ pc = "returned" => (nsolve = 1 /\ solver_status = "optimal")
    /\ solver_status = "failed" =>
        /\ pc = "raised"
        /\ error = SolverFailure
        /\ ~value.given
        /\ operators = <<>>

C8_Witness ==
    /\ solver_status = "failed"
    /\ nsolve = 1
    /\ pc = "raised"
    /\ error = SolverFailure

\* C9: for every pair of inputs that passes diamond_norm's two checks, the
\* Kronecker product I_d (x) rho has the side of W.
C9_KronMatchesW ==
    (fn = "diamond_norm" /\ DiamondValidate(choi_1, choi_2) = NoError) =>
        problem.kron_side = problem.dim_squared

\* C10: the primal formulation is built if and only if the mode is "primal",
\* the dual formulation if and only if the mode is "dual".
C10_ModeSelects ==
    (fn = "state_exclusion" /\ pc \in {"solving", "returned"}) =>
        /\ problem.kind = "primal" <=> primal_dual = "primal"
        /\ problem.kind = "dual" <=> primal_dual = "dual"
====
